---- MODULE Spec2Model ----
(***************************************************************************)
(* The compiler worker of cli/js/compiler.ts: the single-message handler   *)
(* installed by compilerMain.  The handler is an async function; its       *)
(* position is pc, its locals are the variables below.  The TypeScript     *)
(* engine (ts.createProgram, ts.getPreEmitDiagnostics, program.emit,       *)
(* host.configure) is an external collaborator: its results are chosen     *)
(* nondeterministically from small sets.                                   *)
(***************************************************************************)
EXTENDS Integers, Sequences, FiniteSets, TLC

\* ------------------------------------------------------------------ bounds
MaxRoots == 2       \* longest rootNames list of a Compile request
MaxDiags == 2       \* longest diagnostic list the engine returns
MaxWrites == 2      \* most writeFile calls the engine makes in one emit
MaxWasmEntries == 2 \* most import entries, and most export entries, of a binary

\* ------------------------------------------------------------ basic values
\* an optional value: undefined, or a value
None == [some |-> FALSE]
Some(v) == [some |-> TRUE, val |-> v]

Range(s) == {s[i] : i \in 1..Len(s)}
SeqsUpTo(S, n) == UNION {[1..k -> S] : k \in 0..n}
Min(a, b) == IF a < b THEN a ELSE b

\* module identifiers; "x" is a name the privileged side does not know
HostModules == {"a", "b"}
RootNameSet == {"a", "b", "x"}
\* source texts, identified by what they import
Texts == {"t0", "tA", "tB", "tX"}
ImportsOf(text) ==
  CASE text = "t0" -> << >>
    [] text = "tA" -> <<"a">>
    [] text = "tB" -> <<"b">>
    [] text = "tX" -> <<"x">>
\* the module graphs the privileged side may hold
HostChoices ==
  { [m \in HostModules |-> IF m = "a" THEN "tB" ELSE "tA"],
    [m \in HostModules |-> IF m = "a" THEN "t0" ELSE "tX"] }
\* caller-supplied local sources (RuntimeCompile, RuntimeTranspile)
LocalTexts == {"t0", "tA"}
SourceMaps == UNION {[D -> LocalTexts] : D \in SUBSET HostModules}

\* engine diagnostics: a numeric code and the engine's category
\* (0 = Warning, 1 = Error)
ignoredDiagnostics == {1103, 5055}
TsDiags == { [code |-> 5055, category |-> 1],
             [code |-> 6133, category |-> 0] }
DiagLists == SeqsUpTo(TsDiags, MaxDiags)

\* wire form of a diagnostic collection
DiagnosticCategoryName(c) == IF c = 1 THEN "Error" ELSE "Warning"
fromTypeScriptDiagnostic(diags) ==
  [items |-> [i \in 1..Len(diags) |->
                [code |-> diags[i].code,
                 category |-> DiagnosticCategoryName(diags[i].category)]]]

\* ------------------------------------------------------- module resolution
\* resolveModules: canonical form of a requested name
resolveModules(names) ==
  [i \in 1..Len(names) |-> IF names[i] = "./a" THEN "a" ELSE names[i]]

\* discovery-order expansion of the import graph, each module once
RECURSIVE Expand(_, _, _)
Expand(srcOf, todo, seen) ==
  IF todo = << >> THEN seen
  ELSE LET n == Head(todo) IN
       IF n \in Range(seen) THEN Expand(srcOf, Tail(todo), seen)
       ELSE IF n \notin DOMAIN srcOf
            THEN Expand(srcOf, Tail(todo), Append(seen, n))
            ELSE Expand(srcOf, ImportsOf(srcOf[n]) \o Tail(todo), Append(seen, n))

Resolved(specifiers) == [i \in 1..Len(specifiers) |-> specifiers[i][2]]

\* host-backed: rejects when the privileged side lacks a module
processImportsRejects(hostSrc, specifiers) ==
  \E n \in Range(Expand(hostSrc, Resolved(specifiers), << >>)) :
     n \notin DOMAIN hostSrc
processImports(hostSrc, specifiers) ==
  Expand(hostSrc, Resolved(specifiers), << >>)
\* local: purely over the caller's mapping
processLocalImports(sources, specifiers) ==
  Expand(sources, Resolved(specifiers), << >>)

\* ---------------------------------------------------------------- requests
\* an absent bundle flag behaves as false everywhere it is read; outFile is
\* only sent along with bundle
CompileRequests ==
  { r \in [type : {"Compile"}, rootNames : SeqsUpTo(RootNameSet, MaxRoots),
            config : {None, Some(""), Some("cfg")},
            configPath : {None, Some("cfg.json")},
            bundle : BOOLEAN, outFile : {None, Some("out.js")}] :
      r.outFile.some => r.bundle }
\* serialized option overrides a caller may send
OptionStrings == {"{module:commonjs}", "{strict:false}"}
RuntimeCompileRequests ==
  [type : {"RuntimeCompile"}, rootName : {"./a", "b", "x"},
   sources : {None} \cup {Some(m) : m \in SourceMaps},
   bundle : BOOLEAN, options : {None} \cup {Some(o) : o \in OptionStrings}]
RuntimeTranspileRequests ==
  [type : {"RuntimeTranspile"}, sources : SourceMaps,
   options : {None} \cup {Some(o) : o \in OptionStrings}]
UnknownRequests == [type : {"Unknown"}]
\* the binaries the WASM handler may be sent: the module names its import
\* entries refer to and the names of its export entries, in section order
WasmModuleNames == {"env", "js"}
WasmExportNames == {"main", "memory"}
Binaries ==
  [wellFormed : BOOLEAN,
   imports : SeqsUpTo(WasmModuleNames, MaxWasmEntries),
   exports : SeqsUpTo(WasmExportNames, MaxWasmEntries)]

Requests == CompileRequests \cup RuntimeCompileRequests
              \cup RuntimeTranspileRequests \cup UnknownRequests

\* ----------------------------------------------------------------- options
\* option fragments: partial maps from option name to value
defaultRuntimeCompileOptions == [outDir |-> "undefined"]
defaultBundlerOptions == [module |-> "amd", outFile |-> "$deno$.js", sourceMap |-> "false"]
defaultTranspileOptions == [module |-> "esnext", sourceMap |-> "true", target |-> "esnext"]
convertCompilerOptions(str) ==
  IF str = "{module:commonjs}" THEN [module |-> "commonjs"] ELSE [strict |-> "false"]
\* Object.assign: a later fragment overrides an earlier one key by key
Assign(a, b) ==
  [k \in DOMAIN a \cup DOMAIN b |-> IF k \in DOMAIN b THEN b[k] ELSE a[k]]
RECURSIVE mergeOptions(_, _)
mergeOptions(base, frags) ==
  IF frags = << >> THEN base
  ELSE mergeOptions(Assign(base, Head(frags)), Tail(frags))

\* ------------------------------------------------------------------- state
VARIABLES
  hostSrc,              \* module graph held by the privileged side
  pc,                   \* position of the handler
  request,              \* the message being handled (None before it arrives)
  resolvedRootModules,  \* Compile: result of processImports
  state,                \* the WriteFileState (None before it is created)
  diagnostics,          \* let diagnostics (None = undefined)
  configResult,         \* what processConfigureResponse returned (None = not called)
  preEmit,              \* raw result of ts.getPreEmitDiagnostics (None = not called)
  emitSkipped,          \* let emitSkipped
  emitResult,           \* result of program.emit (None = not called)
  rootNames,            \* RuntimeCompile: const rootNames
  compilerOptions,      \* the merged options handed to the engine (None = unset)
  posted,               \* messages handed to postMessage, in order
  closed,               \* workerClose has been called
  threw,                \* the handler's promise rejected
  calls,                \* external operations invoked, in order
  hostEffects,          \* what writeFile forwarded to the privileged side
  binary                \* WASM handler: the module received (None before it arrives)

vars == << hostSrc, pc, request, resolvedRootModules, state, diagnostics,
           configResult,
           preEmit, emitSkipped, emitResult, rootNames, compilerOptions,
           posted, closed, threw, calls, hostEffects, binary >>

\* the worker runs one of the two entry points: compilerMain installs the
\* compiler handler, wasmCompilerMain the WASM one
Init ==
  /\ hostSrc \in HostChoices
  /\ pc \in {"idle", "wasm_idle"}
  /\ binary = None
  /\ request = None
  /\ resolvedRootModules = << >>
  /\ state = None
  /\ diagnostics = None
  /\ configResult = None
  /\ preEmit = None
  /\ emitSkipped = TRUE
  /\ emitResult = None
  /\ rootNames = << >>
  /\ compilerOptions = None
  /\ posted = << >>
  /\ closed = FALSE
  /\ threw = FALSE
  /\ calls = << >>
  /\ hostEffects = << >>

Req == request.val

\* the switch on request.type
SwitchTarget(type) ==
  CASE type = "Compile" -> "compile_processImports"
    [] type = "RuntimeCompile" -> "rc_resolve"
    [] type = "RuntimeTranspile" -> "rt_transpile"
    [] OTHER -> "default"

\* the one inbound message arrives
OnMessage(req) ==
  /\ pc = "idle"
  /\ request' = Some(req)
  /\ pc' = SwitchTarget(req.type)
  /\ UNCHANGED << hostSrc, binary, configResult, rootNames, compilerOptions, resolvedRootModules, state, diagnostics, preEmit,
                  emitSkipped, emitResult, posted, closed, threw, calls,
                  hostEffects >>

\* an exception leaves the async handler: nothing after it runs
Throw ==
  /\ pc' = "rejected"
  /\ threw' = TRUE

\* ----------------------------------------------------------------- Compile
RootPairs(names) == [i \in 1..Len(names) |-> <<names[i], names[i]>>]

CompileProcessImports ==
  /\ pc = "compile_processImports"
  /\ calls' = Append(calls, "processImports")
  /\ IF processImportsRejects(hostSrc, RootPairs(Req.rootNames))
     THEN /\ Throw
          /\ UNCHANGED resolvedRootModules
     ELSE /\ resolvedRootModules' = processImports(hostSrc, RootPairs(Req.rootNames))
          /\ pc' = "compile_state"
          /\ UNCHANGED threw
  /\ UNCHANGED << hostSrc, binary, configResult, rootNames, compilerOptions, request, state, diagnostics, preEmit, emitSkipped,
                  emitResult, posted, closed, hostEffects >>

\* const state: WriteFileState = {..., host: undefined, ...};
\* const writeFile = createWriteFile(state)
CompileCreateState ==
  /\ pc = "compile_state"
  /\ state' = Some([type |-> Req.type, bundle |-> Req.bundle, host |-> None,
                    outFile |-> Req.outFile, rootNames |-> Req.rootNames,
                    sources |-> None, emitMap |-> None, emitBundle |-> None])
  /\ calls' = Append(calls, "createWriteFile")
  /\ pc' = "compile_host"
  /\ UNCHANGED << hostSrc, binary, configResult, rootNames, compilerOptions, request,
                  resolvedRootModules, diagnostics, preEmit, emitSkipped,
                  emitResult, posted, closed, threw, hostEffects >>

\* the engine host built around a writeFile
Host(bundle) == [bundle |-> bundle, writeFile |-> "writeFile"]

\* variant: the host is built but never stored in the state
CompileCreateHost_Unbound ==
  /\ pc = "compile_host"
  /\ calls' = Append(calls, "Host")
  /\ pc' = "compile_configure"
  /\ UNCHANGED << hostSrc, binary, configResult, rootNames, compilerOptions, request,
                  resolvedRootModules, state, diagnostics, preEmit, emitSkipped,
                  emitResult, posted, closed, threw, hostEffects >>

\* const host = (state.host = new Host({ bundle, writeFile }))
CompileCreateHost ==
  /\ pc = "compile_host"
  /\ state' = Some([state.val EXCEPT !.host = Some(Host(Req.bundle))])
  /\ calls' = Append(calls, "Host")
  /\ pc' = "compile_configure"
  /\ UNCHANGED << hostSrc, binary, configResult, rootNames, compilerOptions, request, resolvedRootModules, diagnostics, preEmit,
                  emitSkipped, emitResult, posted, closed, threw, hostEffects >>

\* host.configure and processConfigureResponse run only for a non-empty
\* config with a config path
ConfigSupplied(req) ==
  /\ req.config.some
  /\ req.config.val # ""
  /\ req.configPath.some
  /\ req.configPath.val # ""

CompileConfigure ==
  /\ pc = "compile_configure"
  /\ IF ConfigSupplied(Req)
     THEN /\ \E ds \in DiagLists :
               /\ configResult' = Some(ds)
               /\ diagnostics' = Some(ds)
          /\ calls' = calls \o <<"host.configure", "processConfigureResponse">>
     ELSE UNCHANGED << diagnostics, configResult, calls >>
  /\ pc' = "compile_program"
  /\ UNCHANGED << hostSrc, binary, rootNames, compilerOptions, request, resolvedRootModules, state, preEmit,
                  emitSkipped, emitResult, posted, closed, threw, hostEffects >>

\* the filter applied to the pre-emit diagnostics
NotIgnored(d) == d.code \notin ignoredDiagnostics
FilterIgnored(diags) == SelectSeq(diags, NotIgnored)

\* variant: the configuration diagnostics no longer stop the build
CompileProceeds_Always(diags) == TRUE

\* "if there was a configuration and no diagnostics with it, we will continue"
CompileProceeds(diags) == ~diags.some \/ (diags.some /\ Len(diags.val) = 0)

\* let emitSkipped = true; then the program is built unless configuration
\* reported diagnostics
CompileCreateProgram ==
  /\ pc = "compile_program"
  /\ emitSkipped' = TRUE
  /\ IF CompileProceeds(diagnostics)
     THEN \E raw \in DiagLists :
            /\ preEmit' = Some(raw)
            /\ diagnostics' = Some(FilterIgnored(raw))
            /\ calls' = calls \o <<"createProgram", "getPreEmitDiagnostics">>
            /\ pc' = "compile_emit"
     ELSE /\ pc' = "compile_result"
          /\ UNCHANGED << preEmit, diagnostics, calls >>
  /\ UNCHANGED << hostSrc, binary, configResult, rootNames, compilerOptions, request, resolvedRootModules, state, emitResult,
                  posted, closed, threw, hostEffects >>

\* variant: the emit no longer depends on the pre-emit diagnostics
CompileMayEmit_Always(diags) == diags.some

\* "We will only proceed with the emit if there are no diagnostics."
CompileMayEmit(diags) == diags.some /\ Len(diags.val) = 0

\* variant: the single-root assertion is dropped
CompileBundleAssert_Off(bundle, resolved) == TRUE

\* "we only support a single root module when bundling"
CompileBundleAssert(bundle, resolved) == bundle => Len(resolved) = 1

\* what the engine's emit may return
EmitResults == [emitSkipped : BOOLEAN, diagnostics : DiagLists]

\* the files an emit writes: a prefix of the program's root names
EmitFiles(names, k) == SubSeq(names, 1, k)
JsName(m) == m \o ".js"
JsText(m) == "js:" \o m

\* the writeFile made by createWriteFile(state), applied to one emitted
\* file; st is the WriteFileState, fx the effects on the privileged side
writeFileState(st, m) ==
  IF st.type = "Compile" THEN st
  ELSE IF ~st.bundle
       THEN [st EXCEPT !.emitMap =
               Some([f \in DOMAIN st.emitMap.val \cup {JsName(m)} |->
                       IF f = JsName(m) THEN JsText(m) ELSE st.emitMap.val[f]])]
       ELSE [st EXCEPT !.emitBundle =
               Some((IF st.emitBundle.some THEN st.emitBundle.val ELSE << >>)
                      \o <<JsText(m)>>)]
writeFileEffects(st, fx, m) ==
  IF st.type = "Compile"
  THEN IF ~st.bundle
       THEN Append(fx, [op |-> "cache", name |-> JsName(m), hostBound |-> st.host.some])
       ELSE IF st.outFile.some
            THEN Append(fx, [op |-> "writeOutFile", name |-> st.outFile.val,
                             hostBound |-> st.host.some])
            ELSE Append(fx, [op |-> "stdout", name |-> JsName(m),
                             hostBound |-> st.host.some])
  ELSE Append(fx, [op |-> "emit", name |-> JsName(m), hostBound |-> st.host.some])

RECURSIVE writeAllState(_, _)
writeAllState(st, files) ==
  IF files = << >> THEN st
  ELSE writeAllState(writeFileState(st, Head(files)), Tail(files))
RECURSIVE writeAllEffects(_, _, _)
writeAllEffects(st, fx, files) ==
  IF files = << >> THEN fx
  ELSE writeAllEffects(writeFileState(st, Head(files)),
                       writeFileEffects(st, fx, Head(files)), Tail(files))

CompileEmit ==
  /\ pc = "compile_emit"
  /\ IF CompileMayEmit(diagnostics)
     THEN IF ~CompileBundleAssert(Req.bundle, resolvedRootModules)
          THEN /\ Throw
               /\ calls' = Append(calls, "assert")
               /\ UNCHANGED << state, diagnostics, emitSkipped, emitResult,
                               hostEffects >>
          ELSE \E er \in EmitResults, k \in 0..Min(Len(Req.rootNames), MaxWrites) :
                 /\ calls' = (IF Req.bundle THEN calls \o <<"setRootExports">>
                                            ELSE calls) \o <<"emit">>
                 /\ state' = Some(writeAllState(state.val, EmitFiles(Req.rootNames, k)))
                 /\ hostEffects' = writeAllEffects(state.val, hostEffects,
                                                   EmitFiles(Req.rootNames, k))
                 /\ emitResult' = Some(er)
                 /\ emitSkipped' = er.emitSkipped
                 /\ diagnostics' = Some(er.diagnostics)
                 /\ pc' = "compile_result"
                 /\ UNCHANGED threw
     ELSE /\ pc' = "compile_result"
          /\ UNCHANGED << state, diagnostics, emitSkipped, emitResult, threw,
                          calls, hostEffects >>
  /\ UNCHANGED << hostSrc, binary, configResult, rootNames, compilerOptions, request, resolvedRootModules, preEmit, posted, closed >>

\* variant: the diagnostics are left out of the result
CompileResult_NoDiagnostics(skipped, diags) ==
  [kind |-> "CompileResult", emitSkipped |-> skipped, diagnostics |-> None]

\* variant: an empty diagnostic list is posted as an empty collection
CompileResult_EmptyCollection(skipped, diags) ==
  [kind |-> "CompileResult",
   emitSkipped |-> skipped,
   diagnostics |-> Some(fromTypeScriptDiagnostic(diags.val))]

\* const result: CompileResult
CompileResult(skipped, diags) ==
  [kind |-> "CompileResult",
   emitSkipped |-> skipped,
   diagnostics |-> IF Len(diags.val) # 0
                   THEN Some(fromTypeScriptDiagnostic(diags.val))
                   ELSE None]

\* variant: the response is never posted
CompilePost_NoPost ==
  /\ pc = "compile_result"
  /\ pc' = "close"
  /\ UNCHANGED << hostSrc, binary, configResult, rootNames, compilerOptions, request,
                  resolvedRootModules, state, diagnostics, preEmit, emitSkipped,
                  emitResult, posted, closed, threw, calls, hostEffects >>

CompilePost ==
  /\ pc = "compile_result"
  /\ posted' = Append(posted, CompileResult(emitSkipped, diagnostics))
  /\ calls' = Append(calls, "postMessage")
  /\ pc' = "close"
  /\ UNCHANGED << hostSrc, binary, configResult, rootNames, compilerOptions, request, resolvedRootModules, state, diagnostics,
                  preEmit, emitSkipped, emitResult, closed, threw, hostEffects >>

\* ---------------------------------------------------------- RuntimeCompile
\* const resolvedRootName = sources ? rootName : resolveModules([rootName])[0]
\* variant: the root is resolved even when sources are supplied
resolvedRootName_AlwaysResolved(req) == resolveModules(<<req.rootName>>)[1]

resolvedRootName(req) ==
  IF req.sources.some THEN req.rootName ELSE resolveModules(<<req.rootName>>)[1]

RuntimeCompileResolve ==
  /\ pc = "rc_resolve"
  /\ LET root == resolvedRootName(Req)
         specifiers == << <<root, root>> >>
     IN IF Req.sources.some
        THEN /\ rootNames' = processLocalImports(Req.sources.val, specifiers)
             /\ calls' = Append(calls, "processLocalImports")
             /\ pc' = "rc_state"
             /\ UNCHANGED threw
        ELSE /\ calls' = calls \o <<"resolveModules", "processImports">>
             /\ IF processImportsRejects(hostSrc, specifiers)
                THEN /\ Throw
                     /\ UNCHANGED rootNames
                ELSE /\ rootNames' = processImports(hostSrc, specifiers)
                     /\ pc' = "rc_state"
                     /\ UNCHANGED threw
  /\ UNCHANGED << hostSrc, binary, configResult, compilerOptions, request, resolvedRootModules, state,
                  diagnostics, preEmit, emitSkipped, emitResult, posted, closed,
                  hostEffects >>

\* const compilerOptions = [defaultRuntimeCompileOptions]; push; push
\* variant: the bundler fragment is pushed before the caller's overrides
RuntimeCompileFragments_BundlerFirst(req) ==
  <<defaultRuntimeCompileOptions>>
    \o (IF req.bundle THEN <<defaultBundlerOptions>> ELSE << >>)
    \o (IF req.options.some /\ req.options.val # ""
        THEN <<convertCompilerOptions(req.options.val)>> ELSE << >>)

RuntimeCompileFragments(req) ==
  <<defaultRuntimeCompileOptions>>
    \o (IF req.options.some /\ req.options.val # ""
        THEN <<convertCompilerOptions(req.options.val)>> ELSE << >>)
    \o (IF req.bundle THEN <<defaultBundlerOptions>> ELSE << >>)

EmptyMap == [f \in {} |-> ""]

\* const state: WriteFileState = {..., host: undefined, emitMap: {}, ...};
\* const writeFile = createWriteFile(state)
RuntimeCompileCreateState ==
  /\ pc = "rc_state"
  /\ state' = Some([type |-> Req.type, bundle |-> Req.bundle, host |-> None,
                    outFile |-> None, rootNames |-> rootNames,
                    sources |-> Req.sources, emitMap |-> Some(EmptyMap),
                    emitBundle |-> None])
  /\ calls' = Append(calls, "createWriteFile")
  /\ pc' = "rc_host"
  /\ UNCHANGED << hostSrc, binary, configResult, rootNames, compilerOptions, request,
                  resolvedRootModules, diagnostics, preEmit, emitSkipped,
                  emitResult, posted, closed, threw, hostEffects >>

\* const host = (state.host = new Host({ bundle, writeFile }));
\* host.mergeOptions(...compilerOptions)
RuntimeCompileCreateHost ==
  /\ pc = "rc_host"
  /\ state' = Some([state.val EXCEPT !.host = Some(Host(Req.bundle))])
  /\ compilerOptions' = Some(mergeOptions(EmptyMap, RuntimeCompileFragments(Req)))
  /\ calls' = calls \o <<"Host", "host.mergeOptions">>
  /\ pc' = "rc_program"
  /\ UNCHANGED << hostSrc, binary, configResult, rootNames, request, resolvedRootModules, diagnostics,
                  preEmit, emitSkipped, emitResult, posted, closed, threw,
                  hostEffects >>

RuntimeCompileCreateProgram ==
  /\ pc = "rc_program"
  /\ \E raw \in DiagLists :
       /\ preEmit' = Some(raw)
       /\ diagnostics' = Some(FilterIgnored(raw))
  /\ calls' = calls \o <<"createProgram">>
                \o (IF Req.bundle THEN <<"setRootExports">> ELSE << >>)
                \o <<"getPreEmitDiagnostics">>
  /\ pc' = "rc_emit"
  /\ UNCHANGED << hostSrc, binary, configResult, rootNames, compilerOptions, request,
                  resolvedRootModules, state, emitSkipped, emitResult, posted,
                  closed, threw, hostEffects >>

\* variant: a skipped emit is let through
RuntimeCompileEmitAssert_Off(er) == TRUE

\* assert(emitResult.emitSkipped === false, "Unexpected skip of the emit.")
RuntimeCompileEmitAssert(er) == er.emitSkipped = FALSE

\* of the emit result this path reads emitSkipped alone
RuntimeEmitResults == [emitSkipped : BOOLEAN]

RuntimeCompileEmit ==
  /\ pc = "rc_emit"
  /\ \E er \in RuntimeEmitResults, k \in 0..Min(Len(rootNames), MaxWrites) :
       /\ emitResult' = Some(er)
       /\ state' = Some(writeAllState(state.val, EmitFiles(rootNames, k)))
       /\ hostEffects' = writeAllEffects(state.val, hostEffects, EmitFiles(rootNames, k))
       /\ IF RuntimeCompileEmitAssert(er)
          THEN /\ pc' = "rc_result"
               /\ calls' = Append(calls, "emit")
               /\ UNCHANGED threw
          ELSE /\ Throw
               /\ calls' = calls \o <<"emit", "assert">>
  /\ UNCHANGED << hostSrc, binary, configResult, rootNames, compilerOptions, request,
                  resolvedRootModules, diagnostics, preEmit, emitSkipped, posted,
                  closed >>

\* variant: the bundle flag selects the wrong output
RuntimeCompileResult_Swapped(diags, bundle, st) ==
  LET items == fromTypeScriptDiagnostic(diags).items
  IN [kind |-> "RuntimeCompileResult",
      items |-> IF Len(items) # 0 THEN Some(items) ELSE None,
      output |-> IF bundle THEN [emitMap |-> st.emitMap]
                           ELSE [emitBundle |-> st.emitBundle]]

\* const result = [items && items.length ? items : undefined,
\*                 bundle ? state.emitBundle : state.emitMap]
RuntimeCompileResult(diags, bundle, st) ==
  LET items == fromTypeScriptDiagnostic(diags).items
  IN [kind |-> "RuntimeCompileResult",
      items |-> IF Len(items) # 0 THEN Some(items) ELSE None,
      output |-> IF bundle THEN [emitBundle |-> st.emitBundle]
                           ELSE [emitMap |-> st.emitMap]]

\* postMessage(result); assert(state.emitMap)
RuntimeCompilePost ==
  /\ pc = "rc_result"
  /\ posted' = Append(posted, RuntimeCompileResult(diagnostics.val, Req.bundle, state.val))
  /\ IF state.val.emitMap.some
     THEN /\ pc' = "close"
          /\ calls' = Append(calls, "postMessage")
          /\ UNCHANGED threw
     ELSE /\ Throw
          /\ calls' = calls \o <<"postMessage", "assert">>
  /\ UNCHANGED << hostSrc, binary, configResult, rootNames, compilerOptions, request,
                  resolvedRootModules, state, diagnostics, preEmit, emitSkipped,
                  emitResult, closed, hostEffects >>

\* -------------------------------------------------------- RuntimeTranspile
TranspileOptions(req) ==
  IF req.options.some /\ req.options.val # ""
  THEN mergeOptions(EmptyMap, <<defaultTranspileOptions,
                                convertCompilerOptions(req.options.val)>>)
  ELSE defaultTranspileOptions

\* the engine's single-file transpile
transpileModule(inputText, fileName, options) ==
  [outputText |-> "js:" \o inputText,
   sourceMapText |-> IF options.sourceMap = "true"
                     THEN Some("map:" \o fileName) ELSE None]

\* Object.entries(sources), in a fixed key order
ModuleOrder == <<"a", "b">>
\* variant: the loop misses the first entry
Entries_SkipFirst(sources) ==
  LET InSources(k) == k \in DOMAIN sources
      all == SelectSeq(ModuleOrder, InSources)
  IN IF all = << >> THEN all ELSE Tail(all)

Entries(sources) ==
  LET InSources(k) == k \in DOMAIN sources IN SelectSeq(ModuleOrder, InSources)

\* variant: the files are transpiled through a program built for them
RuntimeTranspile_WithProgram ==
  /\ pc = "rt_transpile"
  /\ LET opts == TranspileOptions(Req)
         result == [f \in Range(Entries(Req.sources)) |->
                      LET out == transpileModule(Req.sources[f], f, opts)
                      IN [source |-> out.outputText, map |-> out.sourceMapText]]
     IN /\ compilerOptions' = Some(opts)
        /\ posted' = Append(posted, [kind |-> "RuntimeTranspileResult", files |-> result])
        /\ calls' = calls \o <<"createProgram", "emit">> \o <<"postMessage">>
  /\ pc' = "close"
  /\ UNCHANGED << hostSrc, binary, configResult, rootNames, request, resolvedRootModules, state,
                  diagnostics, preEmit, emitSkipped, emitResult, closed, threw,
                  hostEffects >>

RuntimeTranspile ==
  /\ pc = "rt_transpile"
  /\ LET opts == TranspileOptions(Req)
         result == [f \in Range(Entries(Req.sources)) |->
                      LET out == transpileModule(Req.sources[f], f, opts)
                      IN [source |-> out.outputText, map |-> out.sourceMapText]]
     IN /\ compilerOptions' = Some(opts)
        /\ posted' = Append(posted, [kind |-> "RuntimeTranspileResult", files |-> result])
        /\ calls' = calls \o [i \in 1..Len(Entries(Req.sources)) |-> "transpileModule"]
                          \o <<"postMessage">>
  /\ pc' = "close"
  /\ UNCHANGED << hostSrc, binary, configResult, rootNames, request, resolvedRootModules, state,
                  diagnostics, preEmit, emitSkipped, emitResult, closed, threw,
                  hostEffects >>

\* ------------------------------------------------------ default and close
\* variant: the default case answers the request
DefaultCase_Responds ==
  /\ pc = "default"
  /\ posted' = Append(posted, [kind |-> "Error"])
  /\ calls' = calls \o <<"util.log", "postMessage">>
  /\ pc' = "close"
  /\ UNCHANGED << hostSrc, binary, configResult, rootNames, compilerOptions, request,
                  resolvedRootModules, state, diagnostics, preEmit, emitSkipped,
                  emitResult, closed, threw, hostEffects >>

DefaultCase ==
  /\ pc = "default"
  /\ calls' = Append(calls, "util.log")
  /\ pc' = "close"
  /\ UNCHANGED << hostSrc, binary, configResult, rootNames, compilerOptions, request, resolvedRootModules, state, diagnostics,
                  preEmit, emitSkipped, emitResult, posted, closed, threw,
                  hostEffects >>

\* "The compiler isolate exits after a single message."
WorkerClose ==
  /\ pc = "close"
  /\ closed' = TRUE
  /\ calls' = Append(calls, "workerClose")
  /\ pc' = "done"
  /\ UNCHANGED << hostSrc, binary, configResult, rootNames, compilerOptions, request, resolvedRootModules, state, diagnostics,
                  preEmit, emitSkipped, emitResult, posted, threw, hostEffects >>

\* ------------------------------------------------------ WASM introspection
\* Array.from(new Set(list)): first occurrences, in insertion order
RECURSIVE ArrayFromSet(_)
ArrayFromSet(list) ==
  IF list = << >> THEN << >>
  ELSE LET init == ArrayFromSet(SubSeq(list, 1, Len(list) - 1))
           last == list[Len(list)]
       IN IF last \in Range(init) THEN init ELSE Append(init, last)

\* WebAssembly.compile resolves for a valid module only; a valid module
\* never exports one name twice
WasmCompiles(bin) ==
  /\ bin.wellFormed
  /\ \A i, j \in 1..Len(bin.exports) : bin.exports[i] = bin.exports[j] => i = j

\* WebAssembly.Module.imports(compiled).map(({ module }) => module)
ModuleImports(bin) == bin.imports
\* WebAssembly.Module.exports(compiled).map(({ name }) => name)
ModuleExports(bin) == bin.exports

\* variant: the import modules are listed as the engine reports them
WasmImportList_Raw(bin) == ModuleImports(bin)

WasmImportList(bin) == ArrayFromSet(ModuleImports(bin))
WasmExportList(bin) == ArrayFromSet(ModuleExports(bin))

\* self.onmessage of wasmCompilerMain receives the one binary
WasmOnMessage(bin) ==
  /\ pc = "wasm_idle"
  /\ binary' = Some(bin)
  /\ calls' = Append(calls, "base64ToUint8Array")
  /\ pc' = "wasm_compile"
  /\ UNCHANGED << hostSrc, configResult, rootNames, compilerOptions, request,
                  resolvedRootModules, state, diagnostics, preEmit, emitSkipped,
                  emitResult, posted, closed, threw, hostEffects >>

\* const compiled = await WebAssembly.compile(buffer)
WasmCompile ==
  /\ pc = "wasm_compile"
  /\ calls' = Append(calls, "WebAssembly.compile")
  /\ IF WasmCompiles(binary.val)
     THEN pc' = "wasm_post" /\ UNCHANGED threw
     ELSE Throw
  /\ UNCHANGED << hostSrc, binary, configResult, rootNames, compilerOptions,
                  request, resolvedRootModules, state, diagnostics, preEmit,
                  emitSkipped, emitResult, posted, closed, hostEffects >>

\* variant: the worker is closed before the lists are posted
WasmPost_AfterClose ==
  /\ pc = "wasm_post"
  /\ posted' = Append(posted, [kind |-> "WasmResult",
                               importList |-> WasmImportList(binary.val),
                               exportList |-> WasmExportList(binary.val)])
  /\ closed' = TRUE
  /\ calls' = calls \o <<"workerClose", "postMessage">>
  /\ pc' = "done"
  /\ UNCHANGED << hostSrc, binary, configResult, rootNames, compilerOptions,
                  request, resolvedRootModules, state, diagnostics, preEmit,
                  emitSkipped, emitResult, threw, hostEffects >>

\* postMessage({ importList, exportList })
WasmPost ==
  /\ pc = "wasm_post"
  /\ posted' = Append(posted, [kind |-> "WasmResult",
                               importList |-> WasmImportList(binary.val),
                               exportList |-> WasmExportList(binary.val)])
  /\ calls' = Append(calls, "postMessage")
  /\ pc' = "wasm_close"
  /\ UNCHANGED << hostSrc, binary, configResult, rootNames, compilerOptions,
                  request, resolvedRootModules, state, diagnostics, preEmit,
                  emitSkipped, emitResult, closed, threw, hostEffects >>

\* workerClose() at the end of the WASM handler
WasmWorkerClose ==
  /\ pc = "wasm_close"
  /\ closed' = TRUE
  /\ calls' = Append(calls, "workerClose")
  /\ pc' = "done"
  /\ UNCHANGED << hostSrc, binary, configResult, rootNames, compilerOptions,
                  request, resolvedRootModules, state, diagnostics, preEmit,
                  emitSkipped, emitResult, posted, threw, hostEffects >>

Next ==
  \/ \E req \in Requests : OnMessage(req)
  \/ CompileProcessImports
  \/ CompileCreateState
  \/ CompileCreateHost
  \/ CompileConfigure
  \/ CompileCreateProgram
  \/ CompileEmit
  \/ CompilePost
  \/ RuntimeCompileResolve
  \/ RuntimeCompileCreateState
  \/ RuntimeCompileCreateHost
  \/ RuntimeCompileCreateProgram
  \/ RuntimeCompileEmit
  \/ RuntimeCompilePost
  \/ RuntimeTranspile
  \/ DefaultCase
  \/ WorkerClose
  \/ \E bin \in Binaries : WasmOnMessage(bin)
  \/ WasmCompile
  \/ WasmPost
  \/ WasmWorkerClose

Spec == Init /\ [][Next]_vars

\* ================================================================ properties
Terminal == pc \in {"done", "rejected"}
KnownKind == Req.type \in {"Compile", "RuntimeCompile", "RuntimeTranspile"}
IsKind(k) == request.some /\ Req.type = k
Called(name) == \E i \in 1..Len(calls) : calls[i] = name
Before(a, b) ==
  \A i, j \in 1..Len(calls) : (calls[i] = a /\ calls[j] = b) => i < j
ConfigDiagnosticsReported == configResult.some /\ Len(configResult.val) > 0

\* the handler was ended by a rejected fetch of the privileged side
FetchRejected == threw /\ ~Called("assert")

\* C1 (as stated): for every request the handler handles, exactly one
\* response is posted and then the worker terminates (the runs ended by a
\* rejected fetch of the privileged side are left aside).
C1_ExactlyOneResponseThenClose ==
  (request.some /\ Terminal /\ ~FetchRejected) =>
     (Len(posted) = 1 /\ closed /\ Before("postMessage", "workerClose"))

\* C1 (amended): at most one response is ever posted; the handler posts
\* exactly one and then closes the worker exactly when the request is of a
\* known kind and the handler runs to its end without an exception; an
\* unknown kind, a failed assertion or a rejected module resolution gets no
\* response.  For Compile this holds whether or not emission occurred.
C1_OneResponseUnlessUnknownOrThrown ==
  request.some =>
    /\ Len(posted) <= 1
    /\ (posted # << >> => pc \in {"close", "done"})
    /\ (closed => pc = "done")
    /\ (Terminal => (Len(posted) = 1 <=> (KnownKind /\ ~threw)))
    /\ ((Terminal /\ Len(posted) = 1) =>
          (closed /\ Before("postMessage", "workerClose")))
    /\ ((Terminal /\ threw) => ~closed)

\* C1 witness: a Compile request answered once without any emission, and
\* the worker closed after the response
C1_Witness ==
  /\ IsKind("Compile") /\ pc = "done" /\ closed
  /\ Len(posted) = 1 /\ emitResult = None

\* C2 (as stated): on every path through the handler, the paths where an
\* assertion fails included, workerClose has been called by the time the
\* handler has finished (the runs ended by a rejected fetch of the
\* privileged side are left aside).
C2_WorkerAlwaysCloses ==
  (request.some /\ Terminal /\ ~FetchRejected) => closed

\* C3: a request of an unknown kind is only logged: nothing is posted, no
\* resolution or engine operation is invoked, and the worker closes.
C3_UnknownKindNoResponse ==
  (request.some /\ ~KnownKind) =>
    /\ posted = << >>
    /\ Range(calls) \subseteq {"util.log", "workerClose"}
    /\ ~threw
    /\ (pc = "done" => (closed /\ calls = <<"util.log", "workerClose">>))
    /\ pc \in {"default", "close", "done"}

C3_Witness ==
  /\ request.some /\ ~KnownKind
  /\ pc = "done" /\ closed /\ posted = << >>

\* C4: when the configuration step of a Compile request reports at least
\* one diagnostic, the program is never built and the single response has
\* emitSkipped = true and carries exactly the configuration diagnostics.
C4_ConfigFailureShortCircuits ==
  (IsKind("Compile") /\ ConfigDiagnosticsReported) =>
    /\ ConfigSupplied(Req)
    /\ ~Called("createProgram")
    /\ ~Called("getPreEmitDiagnostics")
    /\ ~Called("emit")
    /\ ~threw
    /\ Len(posted) <= 1
    /\ (pc \in {"close", "done"} =>
          posted = << [kind |-> "CompileResult",
                       emitSkipped |-> TRUE,
                       diagnostics |->
                         Some(fromTypeScriptDiagnostic(configResult.val))] >>)

C4_Witness ==
  /\ IsKind("Compile") /\ ConfigDiagnosticsReported
  /\ pc = "done" /\ Len(posted) = 1 /\ posted[1].emitSkipped

\* C5 (as stated): a Compile request whose modules produce zero pre-emit
\* diagnostics is answered with emitSkipped = false and no diagnostics.
C5_CleanPreEmitMeansEmitted ==
  (IsKind("Compile") /\ preEmit = Some(<< >>) /\ posted # << >>) =>
     (posted[1].emitSkipped = FALSE /\ posted[1].diagnostics = None)

\* C5 (amended): a Compile request whose modules produce zero pre-emit
\* diagnostics is answered with the result of the emit: emitSkipped is the
\* emit result's emitSkipped, and diagnostics is absent exactly when the emit
\* result carries no diagnostics (so emitSkipped = false and diagnostics
\* absent when the emit is not skipped and reports nothing); the only way it
\* goes unanswered is the failed single-root assertion of a bundle.
C5_CleanPreEmitReportsEmitResult ==
  (IsKind("Compile") /\ preEmit = Some(<< >>)) =>
    /\ (posted # << >> =>
          /\ emitResult.some
          /\ posted = << [kind |-> "CompileResult",
                          emitSkipped |-> emitResult.val.emitSkipped,
                          diagnostics |->
                            IF emitResult.val.diagnostics = << >> THEN None
                            ELSE Some(fromTypeScriptDiagnostic(
                                        emitResult.val.diagnostics))] >>)
    /\ (pc \in {"close", "done"} => posted # << >>)
    /\ (pc = "rejected" =>
          (Req.bundle /\ Len(resolvedRootModules) # 1 /\ ~emitResult.some))

C5_Witness ==
  /\ IsKind("Compile") /\ preEmit = Some(<< >>) /\ posted # << >>
  /\ emitResult.some /\ ~emitResult.val.emitSkipped
  /\ emitResult.val.diagnostics = << >>
  /\ posted[1].emitSkipped = FALSE /\ posted[1].diagnostics = None

\* C6 (as stated): a Compile request with bundle = true and more than one
\* resolved root module ends in a failed assertion, with no response and
\* before any emission.
C6_BundleMultiRootAlwaysFatal ==
  (IsKind("Compile") /\ Req.bundle /\ Len(resolvedRootModules) > 1 /\ Terminal) =>
     (threw /\ posted = << >> /\ ~Called("emit"))

DiagnosticsClean ==
  /\ ~ConfigDiagnosticsReported
  /\ preEmit.some
  /\ FilterIgnored(preEmit.val) = << >>

\* C6 (amended): for a Compile request with bundle = true and more than one
\* resolved root module emission is never invoked; the assertion fails (no
\* response) when neither configuration nor the filtered pre-emit check
\* reported a diagnostic, and otherwise the request is answered with
\* emitSkipped = true and those diagnostics without reaching the assertion.
C6_BundleMultiRootNeverEmits ==
  (IsKind("Compile") /\ Req.bundle /\ Len(resolvedRootModules) > 1) =>
    /\ ~Called("emit")
    /\ ~Called("setRootExports")
    /\ (Terminal =>
          IF DiagnosticsClean
          THEN threw /\ posted = << >> /\ Called("assert")
          ELSE /\ ~threw /\ ~Called("assert")
               /\ Len(posted) = 1
               /\ posted[1].emitSkipped
               /\ posted[1].diagnostics.some)

C6_Witness ==
  /\ IsKind("Compile") /\ Req.bundle /\ Len(resolvedRootModules) > 1
  /\ pc = "rejected" /\ Called("assert") /\ ~Called("emit") /\ posted = << >>

\* the resolved root module list of the request being handled
ResolvedRoots == IF Req.type = "Compile" THEN resolvedRootModules ELSE rootNames

\* C7: program.emit is never invoked for a Compile or RuntimeCompile request
\* with bundle = true whose resolved root module list does not have exactly
\* one element.
C7_BundleEmitNeedsSingleRoot ==
  ((IsKind("Compile") \/ IsKind("RuntimeCompile")) /\ Req.bundle /\ Called("emit")) =>
     Len(ResolvedRoots) = 1

\* C8: in a RuntimeCompile request a skipped emit aborts the handler at once
\* with no response; a response is only ever posted after an emit that was
\* not skipped.
C8_RuntimeSkippedEmitIsFatal ==
  IsKind("RuntimeCompile") =>
    /\ ((emitResult.some /\ emitResult.val.emitSkipped) =>
          (pc = "rejected" /\ threw /\ posted = << >> /\ ~closed))
    /\ (posted # << >> =>
          /\ emitResult.some
          /\ emitResult.val.emitSkipped = FALSE
          /\ Before("emit", "postMessage"))

C8_Witness ==
  /\ IsKind("RuntimeCompile")
  /\ emitResult.some /\ emitResult.val.emitSkipped
  /\ pc = "rejected" /\ posted = << >>

ResponseCodes(msg) ==
  IF msg.kind = "CompileResult"
  THEN IF msg.diagnostics.some
       THEN {msg.diagnostics.val.items[i].code :
               i \in 1..Len(msg.diagnostics.val.items)}
       ELSE {}
  ELSE IF msg.kind = "RuntimeCompileResult"
       THEN IF msg.items.some
            THEN {msg.items.val[i].code : i \in 1..Len(msg.items.val)}
            ELSE {}
       ELSE {}

\* C10: no response carries a diagnostic whose code is in the ignored set,
\* whatever the request kind and whichever step produced the diagnostic
\* (stated here for the requests whose configuration step reported nothing,
\* so that only the pre-emit check and the emit are sources).
C10_NoIgnoredDiagnosticInResponse ==
  ~ConfigDiagnosticsReported =>
    \A i \in 1..Len(posted) :
       ResponseCodes(posted[i]) \cap ignoredDiagnostics = {}

\* the diagnostics a Compile request is left with: those of the configuration
\* step if it reported any, else those of the emit if it ran, else the
\* filtered pre-emit ones
CompileRemaining ==
  IF ConfigDiagnosticsReported THEN configResult.val
  ELSE IF emitResult.some THEN emitResult.val.diagnostics
  ELSE FilterIgnored(preEmit.val)

\* C11: in every posted Compile and RuntimeCompile response a diagnostic
\* collection with zero items is absent, never an empty collection, and the
\* diagnostics field is present exactly when at least one diagnostic remains.
C11_EmptyDiagnosticsAreAbsent ==
  \A i \in 1..Len(posted) :
    /\ posted[i].kind = "CompileResult" =>
         /\ posted[i].diagnostics # Some([items |-> << >>])
         /\ posted[i].diagnostics.some <=> (Len(CompileRemaining) > 0)
         /\ posted[i].diagnostics.some =>
              Len(posted[i].diagnostics.val.items) = Len(CompileRemaining)
    /\ posted[i].kind = "RuntimeCompileResult" =>
         /\ posted[i].items # Some(<< >>)
         /\ posted[i].items.some <=> (Len(FilterIgnored(preEmit.val)) > 0)
         /\ posted[i].items.some =>
              Len(posted[i].items.val) = Len(FilterIgnored(preEmit.val))

\* a Compile response after a clean emit, and so without a diagnostics field
C11_Witness ==
  /\ IsKind("Compile")
  /\ emitResult.some
  /\ emitResult.val.diagnostics = << >>
  /\ Len(posted) = 1
  /\ posted[1].diagnostics = None

\* the caller's overrides of a RuntimeCompile request, as option keys
CallerOverrides ==
  IF Req.options.some THEN convertCompilerOptions(Req.options.val) ELSE EmptyMap
BundlerKeys == IF Req.bundle THEN DOMAIN defaultBundlerOptions ELSE {}

\* C12: the options of a RuntimeCompile request are the runtime defaults,
\* overridden by the caller's options when supplied, overridden by the bundler
\* fragment when bundle is true: with bundle every bundler key has the
\* bundler's value whatever the caller supplied, without bundle the bundler
\* fragment is not applied at all.
C12_BundlerFragmentMergedLast ==
  (IsKind("RuntimeCompile") /\ compilerOptions.some) =>
    LET opts == compilerOptions.val
    IN /\ DOMAIN opts = DOMAIN defaultRuntimeCompileOptions
                          \cup DOMAIN CallerOverrides \cup BundlerKeys
       /\ Req.bundle =>
            \A k \in DOMAIN defaultBundlerOptions : opts[k] = defaultBundlerOptions[k]
       /\ \A k \in DOMAIN CallerOverrides \ BundlerKeys : opts[k] = CallerOverrides[k]
       /\ \A k \in DOMAIN defaultRuntimeCompileOptions
                     \ (DOMAIN CallerOverrides \cup BundlerKeys) :
            opts[k] = defaultRuntimeCompileOptions[k]
       /\ ~Req.bundle => opts = Assign(defaultRuntimeCompileOptions, CallerOverrides)

\* a bundling RuntimeCompile whose caller asked for another module format
C12_Witness ==
  /\ IsKind("RuntimeCompile")
  /\ Req.bundle
  /\ Req.options = Some("{module:commonjs}")
  /\ compilerOptions.some
  /\ compilerOptions.val.module = "amd"

CountCalls(name) == Cardinality({i \in 1..Len(calls) : calls[i] = name})

\* C13: a RuntimeTranspile request invokes the engine's single-file transpile
\* exactly once per entry of the input mapping, and the posted mapping has
\* exactly the input's file names as keys, each holding the output for that
\* file's text.
C13_TranspileOncePerEntry ==
  (IsKind("RuntimeTranspile") /\ pc # "rt_transpile") =>
    /\ CountCalls("transpileModule") = Cardinality(DOMAIN Req.sources)
    /\ Len(posted) = 1
    /\ posted[1].kind = "RuntimeTranspileResult"
    /\ DOMAIN posted[1].files = DOMAIN Req.sources
    /\ \A f \in DOMAIN Req.sources :
         posted[1].files[f].source =
           transpileModule(Req.sources[f], f, compilerOptions.val).outputText

\* two files of different text were transpiled
C13_Witness ==
  /\ IsKind("RuntimeTranspile")
  /\ DOMAIN Req.sources = {"a", "b"}
  /\ Req.sources["a"] # Req.sources["b"]
  /\ Len(posted) = 1
  /\ CountCalls("transpileModule") = 2

NoDuplicates(list) ==
  \A i, j \in 1..Len(list) : list[i] = list[j] => i = j

\* C14: the WASM handler posts exactly one response, whose importList holds
\* each import module name of the binary exactly once and whose exportList
\* holds each export name exactly once, and closes the worker after it; when
\* the binary does not compile nothing is posted.
C14_WasmListsAreDeduplicated ==
  binary.some =>
    /\ Len(posted) <= 1
    /\ \A i \in 1..Len(posted) :
         /\ posted[i].kind = "WasmResult"
         /\ NoDuplicates(posted[i].importList)
         /\ Range(posted[i].importList) = Range(ModuleImports(binary.val))
         /\ NoDuplicates(posted[i].exportList)
         /\ Range(posted[i].exportList) = Range(ModuleExports(binary.val))
    /\ pc = "done" =>
         /\ Len(posted) = 1
         /\ closed
         /\ SubSeq(calls, Len(calls) - 1, Len(calls)) = <<"postMessage", "workerClose">>
    /\ closed => Len(posted) = 1
    /\ ~WasmCompiles(binary.val) => posted = << >>
    /\ pc = "rejected" => (~WasmCompiles(binary.val) /\ posted = << >>)

\* a binary importing twice from one module was introspected
C14_Witness ==
  /\ binary.some
  /\ ModuleImports(binary.val) = <<"env", "env">>
  /\ pc = "done"
  /\ Len(posted) = 1
  /\ posted[1].importList = <<"env">>

PreEmitClean == preEmit.some /\ FilterIgnored(preEmit.val) = << >>

\* C15: a Compile request invokes the emit only if the filtered pre-emit
\* diagnostics are empty; a response posted without an emit (configuration or
\* pre-emit diagnostics were reported) has emitSkipped = true and a present
\* diagnostics field; a response posted after an emit has the emit result's
\* emitSkipped and diagnostics.
C15_EmitGatedByPreEmitDiagnostics ==
  IsKind("Compile") =>
    /\ Called("emit") <=> emitResult.some
    /\ Called("emit") => (PreEmitClean /\ ~ConfigDiagnosticsReported)
    /\ \A i \in 1..Len(posted) :
         IF Called("emit")
         THEN /\ posted[i].emitSkipped = emitResult.val.emitSkipped
              /\ posted[i].diagnostics =
                   IF Len(emitResult.val.diagnostics) = 0 THEN None
                   ELSE Some(fromTypeScriptDiagnostic(emitResult.val.diagnostics))
         ELSE /\ ConfigDiagnosticsReported \/ (preEmit.some /\ ~PreEmitClean)
              /\ posted[i].emitSkipped = TRUE
              /\ posted[i].diagnostics.some

\* a response posted after pre-emit diagnostics stopped the emit
C15_Witness ==
  /\ IsKind("Compile")
  /\ preEmit.some
  /\ ~PreEmitClean
  /\ ~Called("emit")
  /\ Len(posted) = 1
  /\ posted[1].emitSkipped
  /\ posted[1].diagnostics.some

\* C16: a RuntimeCompile request resolves its root in one of two modes. With
\* sources the requested root name is used unchanged and expanded locally:
\* processLocalImports is the only resolution call, resolveModules and the
\* host-backed processImports are never invoked. Without sources
\* resolveModules is applied to the root first, then processImports, which
\* has completed before the write-file state, the host and the program are
\* created.
C16_RootResolvedByExactlyOneMode ==
  (IsKind("RuntimeCompile") /\ pc # "rc_resolve") =>
    IF Req.sources.some
    THEN /\ calls[1] = "processLocalImports"
         /\ CountCalls("processLocalImports") = 1
         /\ ~Called("resolveModules")
         /\ ~Called("processImports")
         /\ rootNames[1] = Req.rootName
         /\ rootNames = processLocalImports(Req.sources.val,
                                            << <<Req.rootName, Req.rootName>> >>)
    ELSE /\ SubSeq(calls, 1, 2) = <<"resolveModules", "processImports">>
         /\ CountCalls("resolveModules") = 1
         /\ CountCalls("processImports") = 1
         /\ ~Called("processLocalImports")
         /\ LET root == resolveModules(<<Req.rootName>>)[1]
            IN (state.some \/ Called("createWriteFile") \/ Called("Host")
                  \/ Called("createProgram")) =>
                 /\ ~processImportsRejects(hostSrc, << <<root, root>> >>)
                 /\ rootNames = processImports(hostSrc, << <<root, root>> >>)

\* a host-resolved root whose canonical name differs from the requested one
C16_Witness ==
  /\ IsKind("RuntimeCompile")
  /\ ~Req.sources.some
  /\ Req.rootName = "./a"
  /\ rootNames # << >>
  /\ rootNames[1] = "a"
  /\ Called("createProgram")

\* C17: a RuntimeTranspile request builds no program and no module graph:
\* module resolution, host construction, createProgram,
\* getPreEmitDiagnostics and emit are never invoked on its path, no
\* write-file state is created, and the response carries no diagnostics.
C17_TranspileBuildsNoProgram ==
  IsKind("RuntimeTranspile") =>
    /\ Range(calls) \subseteq {"transpileModule", "postMessage", "workerClose"}
    /\ state = None
    /\ rootNames = << >>
    /\ resolvedRootModules = << >>
    /\ diagnostics = None
    /\ configResult = None
    /\ preEmit = None
    /\ emitResult = None
    /\ hostEffects = << >>
    /\ \A i \in 1..Len(posted) :
         /\ DOMAIN posted[i] = {"kind", "files"}
         /\ \A f \in DOMAIN posted[i].files :
              DOMAIN posted[i].files[f] = {"source", "map"}

\* a RuntimeTranspile request was answered and the worker closed
C17_Witness ==
  /\ IsKind("RuntimeTranspile")
  /\ Req.sources # EmptyMap
  /\ Called("transpileModule")
  /\ Len(posted) = 1
  /\ pc = "done"

\* C18: the write-file state's host reference is absent when writeFile is
\* created and is bound exactly once, to the host constructed with that
\* writeFile; the binding comes before createProgram and emit, so writeFile
\* never runs while the reference is absent, and it is never rebound.
C18_HostBoundOnceBeforeUse ==
  /\ state = None => (~Called("createWriteFile") /\ ~Called("Host"))
  /\ pc \in {"compile_host", "rc_host"} => (state.some /\ state.val.host = None)
  /\ state.some =>
       /\ CountCalls("createWriteFile") = 1
       /\ CountCalls("Host") <= 1
       /\ state.val.host.some <=> Called("Host")
       /\ state.val.host.some => state.val.host.val = Host(Req.bundle)
       /\ Before("createWriteFile", "Host")
       /\ Before("Host", "createProgram")
       /\ Before("Host", "emit")
       /\ (Called("createProgram") \/ Called("emit")) => state.val.host.some
  /\ \A i \in 1..Len(hostEffects) : hostEffects[i].hostBound

\* the engine wrote a file of a Compile request through the bound host
C18_Witness ==
  /\ IsKind("Compile")
  /\ Called("emit")
  /\ state.val.host = Some(Host(Req.bundle))
  /\ Len(hostEffects) > 0
  /\ hostEffects[1].hostBound

\* C19: in every execution of either handler postMessage is called at most
\* once and never after workerClose, so every posted response strictly
\* precedes the close; a Compile or RuntimeCompile response is posted only
\* after module resolution has completed.
C19_PostPrecedesCloseAndFollowsResolution ==
  /\ CountCalls("postMessage") <= 1
  /\ Len(posted) = CountCalls("postMessage")
  /\ CountCalls("workerClose") <= 1
  /\ closed <=> Called("workerClose")
  /\ Before("postMessage", "workerClose")
  /\ (IsKind("Compile") /\ posted # << >>) =>
       /\ Called("processImports")
       /\ Before("processImports", "postMessage")
       /\ ~processImportsRejects(hostSrc, RootPairs(Req.rootNames))
       /\ resolvedRootModules = processImports(hostSrc, RootPairs(Req.rootNames))
  /\ (IsKind("RuntimeCompile") /\ posted # << >>) =>
       /\ Called("processImports") \/ Called("processLocalImports")
       /\ Before("processImports", "postMessage")
       /\ Before("processLocalImports", "postMessage")
       /\ rootNames # << >>

\* a host-resolved RuntimeCompile request was answered, then the worker closed
C19_Witness ==
  /\ IsKind("RuntimeCompile")
  /\ Called("processImports")
  /\ calls[Len(calls) - 1] = "postMessage"
  /\ calls[Len(calls)] = "workerClose"
  /\ closed

====
